---- MODULE Spec2Model ----
(***************************************************************************)
(* A model of src/train_eval.py: class TrainModel with its three public    *)
(* methods load_data, train_model and evaluate_model.  evaluate_model is   *)
(* modelled one loop iteration (one strategy A..F) per action, so that the *)
(* states in which an exception leaves the two accuracy dictionaries are   *)
(* visible.                                                                *)
(*                                                                         *)
(* Representation.                                                         *)
(*  - The table `data` is run-length encoded: n_bulk identical complete    *)
(*    rows (BulkRow) followed by the rows of `tail`.  Row indices 1..n are *)
(*    the positions in data.to_numpy().                                    *)
(*  - np.nan is the integer NaN (= -1); real cell values are >= 0.         *)
(*  - Target scores and the threshold are in tenths (0.5 is 5).            *)
(*  - x_train / x_test / x_missing hold the row indices selected out of X  *)
(*    (and, at the same indices, out of y); None is <<>> and a value v is  *)
(*    <<v>>.                                                               *)
(*  - An accuracy is the pair <<matches, length>>; 0.0 is <<0, n>>, n > 0. *)
(*  - The external estimators are deterministic given the seed: the       *)
(*    outcome of the seeded shuffle (rng) and the kind of classifier the   *)
(*    forest fit yields (learner) are fixed in the initial state.          *)
(***************************************************************************)
EXTENDS Integers, Sequences, FiniteSets, TLC

VARIABLES
  data,             \* self.data: the table given to the constructor
  rng,              \* the test indices the shuffle seeded by random_seed yields
  learner,          \* the kind of classifier a fit of the forest yields
  x_train,          \* self.x_train, self.y_train (row indices)
  x_test,           \* self.x_test, self.y_test (row indices, in order)
  x_missing,        \* self.x_missing, self.y_missing (row indices, in order)
  feature_labels,   \* self.feature_labels
  columns_missing,  \* self.columns_missing
  model,            \* self.model
  accuracy_dict_entire_test_set,
  accuracy_dict_missing_values,
  pc,               \* "idle", or the method the loop of evaluate_model runs next
  call,             \* the public method called last
  err,              \* the exception the last step raised, "none" if none
  method,           \* evaluate_model's loop variable
  y_test_full,      \* evaluate_model's local y_test_full
  y_test_full_from, \* the method whose iteration assigned y_test_full
  y_pred,           \* evaluate_model's local y_pred
  predict_inputs    \* every row handed to a predict call so far

vars == <<data, rng, learner, x_train, x_test, x_missing, feature_labels,
          columns_missing, model, accuracy_dict_entire_test_set,
          accuracy_dict_missing_values, pc, call, err,
          method, y_test_full, y_test_full_from, y_pred, predict_inputs>>

\* ------------------------------------------------------------- bounds
\* rows of the table after the bulk of identical complete rows
MaxTail == 2

\* ------------------------------------------------------ program constants
\* train_size = 3000
TrainSize == 3000
\* threshold = 0.5, in tenths
threshold == 5
\* np.nan
NaN == -1
\* the label method A gives a missing row
AbstainLabel == -1

\* the feature columns 1.. of the table; column 0 is the target
Features == {1, 2}
TargetColumn == 0
\* the values of the non-null cells of the tail rows (the bulk rows hold 0)
Vals == {1}
\* target scores in tenths, one on either side of the threshold
Scores == {2, 8}
\* what a fitted forest predicts: the majority label of its training rows, or
\* 1 exactly for the rows whose first column is >= 1
Learners == {"const", "stump"}
\* the list with two methods exchanged
MethodsSwapped == <<"A", "C", "B", "D", "E", "F">>

\* method = ['A','B','C','D','E','F']
Methods == <<"A", "B", "C", "D", "E", "F">>

None == <<>>
Some(v) == <<v>>
NoEntry == <<>>

\* ------------------------------------------------------------ sequences
Range(s) == {s[i] : i \in 1..Len(s)}

RECURSIVE SetToSortedSeq(_)
SetToSortedSeq(S) ==
  IF S = {} THEN <<>>
  ELSE LET m == CHOOSE a \in S : \A b \in S : a <= b
       IN  <<m>> \o SetToSortedSeq(S \ {m})

Injective(s) == \A i, j \in 1..Len(s) : i # j => s[i] # s[j]

Position(s, v) == CHOOSE i \in 1..Len(s) : s[i] = v

\* ------------------------------------------------------------ the table
\* The rows the table starts with: complete, all alike.
BulkRow == [score |-> 8, x |-> [f \in Features |-> 0]]

\* A row: the target score (column 0) and the feature cells (columns 1..).
Rows == [score : Scores \cup {NaN}, x : [Features -> Vals \cup {NaN}]]

Tails == UNION {[1..n -> Rows] : n \in 0..MaxTail}

Datasets == [n_bulk : {TrainSize - 1, TrainSize}, tail : Tails]

NumRows(d) == d.n_bulk + Len(d.tail)

DataRow(d, i) == IF i <= d.n_bulk THEN BulkRow ELSE d.tail[i - d.n_bulk]

\* X = Xy[:,1:]
X(d, i) == DataRow(d, i).x

\* y = (Xy[:,0] >= threshold).astype(int); a comparison with nan is False
Y(d, i) ==
  LET s == DataRow(d, i).score
  IN  IF s # NaN /\ s >= threshold THEN 1 ELSE 0

\* np.isnan(X) of one row: some feature cell is null
HasNull(row) == \E f \in Features : row.x[f] = NaN

\* the mask taken over Xy, the target column included
IsMissingWithTarget(d, i) ==
  HasNull(DataRow(d, i)) \/ DataRow(d, i).score = NaN

\* missing = np.sum(np.isnan(X), axis = 1) > 0
IsMissing(d, i) == HasNull(DataRow(d, i))

TailIds(d) == (d.n_bulk + 1)..NumRows(d)

MissingIds(d) == {i \in TailIds(d) : IsMissing(d, i)}

\* A set of row indices, kept as an interval lo..hi of bulk rows and a set
\* `more` of tail rows.
IdSet(lo, hi, more) == [lo |-> lo, hi |-> hi, more |-> more]

IntervalSize(S) == IF S.hi >= S.lo THEN S.hi - S.lo + 1 ELSE 0

Size(S) == IntervalSize(S) + Cardinality(S.more)

In(i, S) == (S.lo <= i /\ i <= S.hi) \/ i \in S.more

\* The number of rows of S with a property, given whether the first bulk row
\* of S has it (the bulk rows are alike, so it decides for the interval) and
\* the tail rows of S that have it.
CountWhere(S, first_has, tail_having) ==
  (IF IntervalSize(S) > 0 /\ first_has THEN IntervalSize(S) ELSE 0)
  + Cardinality(tail_having)

\* S without the rows R, which hold of the interval only its first rows
Without(S, R) ==
  IdSet(S.lo + Cardinality({i \in R : S.lo <= i /\ i <= S.hi}), S.hi,
        S.more \ R)

\* the indices of X[~missing]
CompleteIds(d) == IdSet(1, d.n_bulk, {i \in TailIds(d) : ~IsMissing(d, i)})

\* isnull().all() in place of isnull().any(): a column null in every row
ColumnAllNull(d, c) ==
  \A i \in 1..NumRows(d) :
     IF c = TargetColumn THEN DataRow(d, i).score = NaN
     ELSE DataRow(d, i).x[c] = NaN

\* data.isnull().any() for column c, the target column included: some row
\* holds a null in it (a row of the tail: the bulk rows hold none)
ColumnNull(d, c) ==
  \E i \in TailIds(d) :
     IF c = TargetColumn THEN DataRow(d, i).score = NaN
     ELSE DataRow(d, i).x[c] = NaN

\* data.columns[missing_values].tolist()
ColumnsMissing(d) == {c \in {TargetColumn} \cup Features : ColumnNull(d, c)}

\* --------------------------------------------------- train_test_split
\* a split that accepts train_size = n_samples and leaves the test set empty
SplitRaisesWhenFewer(n_samples) == TrainSize > n_samples \/ TrainSize <= 0

\* sklearn's _validate_shuffle_split: an integer train_size must satisfy
\* 0 < train_size < n_samples
SplitRaises(n_samples) == TrainSize >= n_samples \/ TrainSize <= 0

NumTest(n_samples) == n_samples - TrainSize

\* The test indices a seeded shuffle can yield for the table: any sequence of
\* n_test distinct complete rows.  The outcomes enumerated are those drawn
\* from the complete rows of the tail and the first bulk row.
ShuffleCandidates(d) == {1} \cup {i \in TailIds(d) : ~IsMissing(d, i)}

ShuffleOutcomes(d) ==
  LET n == Size(CompleteIds(d))
  IN  IF SplitRaises(n) THEN {<<>>}
      ELSE {s \in [1..NumTest(n) -> ShuffleCandidates(d)] : Injective(s)}

\* train_test_split(X[~missing], y[~missing], train_size = 3000, random_state)
TrainTestSplit(d, shuffle) ==
  [train |-> Without(CompleteIds(d), Range(shuffle)), test |-> shuffle]

\* ------------------------------------------------ the estimators (sklearn)
\* RandomForestClassifier(random_state = random_seed), before fit
Unfitted == [fitted |-> FALSE, kind |-> "none", majority |-> 0, n_features |-> 0]

\* np.bincount(labels).argmax(): the first of the most frequent labels
Majority(d, ids) ==
  LET ones == CountWhere(ids, Y(d, ids.lo) = 1,
                         {i \in ids.more : Y(d, i) = 1})
  IN  IF ones > Size(ids) - ones THEN 1 ELSE 0

\* fit(X, y) validates its input first: no X/y at all, or X with no column
FitRaises(train, cols) ==
  IF train = None \/ Len(cols) = 0 THEN "ValueError" ELSE "none"

\* The fitted forest: a deterministic function of the training partition, the
\* columns and the seed.
Fit(d, ids, cols, kind) ==
  [fitted |-> TRUE, kind |-> kind, majority |-> Majority(d, ids),
   n_features |-> Len(cols)]

\* A row of cells restricted to the columns cols (a sequence of column ids)
Cells(x, cols) == [k \in 1..Len(cols) |-> x[cols[k]]]

AllColumns == SetToSortedSeq(Features)

RowHasNaN(r) == \E k \in 1..Len(r) : r[k] = NaN

\* predict without check_is_fitted
PredictRaisesUnchecked(m, rows) ==
  IF Len(rows) = 0 THEN "ValueError"
  ELSE IF \E k \in 1..Len(rows) : RowHasNaN(rows[k]) THEN "ValueError"
  ELSE "none"

\* predict(X): check_is_fitted, then check_array (at least one sample, no nan)
PredictRaises(m, rows) ==
  IF ~m.fitted THEN "NotFittedError"
  ELSE IF Len(rows) = 0 THEN "ValueError"
  ELSE IF \E k \in 1..Len(rows) : RowHasNaN(rows[k]) THEN "ValueError"
  ELSE "none"

PredictRow(m, r) ==
  IF m.kind = "stump" THEN (IF r[1] >= 1 THEN 1 ELSE 0) ELSE m.majority

Predict(m, rows) == [k \in 1..Len(rows) |-> PredictRow(m, rows[k])]

\* accuracy_score(y_true, y_pred) as <<number of matches, length>>
AccuracyRaises(truth, pred) ==
  IF Len(truth) # Len(pred) THEN "ValueError" ELSE "none"

Accuracy(truth, pred) ==
  <<Cardinality({k \in 1..Len(truth) : truth[k] = pred[k]}), Len(truth)>>

\* ------------------------------------------------------------- columns
ColumnValues(d, ids, c) ==
  (IF IntervalSize(ids) > 0 THEN {X(d, ids.lo)[c]} ELSE {})
  \cup {X(d, i)[c] : i \in ids.more}

CountOf(d, ids, c, v) ==
  CountWhere(ids, X(d, ids.lo)[c] = v, {i \in ids.more : X(d, i)[c] = v})

CountBelow(d, ids, c, v) ==
  CountWhere(ids, X(d, ids.lo)[c] < v, {i \in ids.more : X(d, i)[c] < v})

RECURSIVE SumOver(_, _, _, _)
SumOver(d, ids, c, vs) ==
  IF vs = {} THEN 0
  ELSE LET v == CHOOSE a \in vs : TRUE
       IN  v * CountOf(d, ids, c, v) + SumOver(d, ids, c, vs \ {v})

\* rebuilt_x_train[column].mean(), rounded down to a cell value
Mean(d, ids, c) ==
  SumOver(d, ids, c, ColumnValues(d, ids, c)) \div Size(ids)

\* the k-th smallest value of the column
Kth(d, ids, c, k) ==
  CHOOSE v \in ColumnValues(d, ids, c) :
    /\ CountBelow(d, ids, c, v) < k
    /\ CountBelow(d, ids, c, v) + CountOf(d, ids, c, v) >= k

\* rebuilt_x_train[column].median(), rounded down to a cell value
Median(d, ids, c) ==
  LET n == Size(ids)
  IN  IF n % 2 = 1 THEN Kth(d, ids, c, (n + 1) \div 2)
      ELSE (Kth(d, ids, c, n \div 2) + Kth(d, ids, c, n \div 2 + 1)) \div 2

\* A value KNNImputer can put in a null cell of column c: a mean of the
\* column's values over neighbouring training rows
KnnValues(d, ids, c) ==
  LET vs == ColumnValues(d, ids, c)
      lo == CHOOSE a \in vs : \A b \in vs : a <= b
      hi == CHOOSE a \in vs : \A b \in vs : b <= a
  IN  lo..hi

\* ------------------------------------------- evaluate_model: one iteration
\* The working copies taken at the top of an iteration (lines 88-91) and the
\* read-only fields, as index sequences, label vectors and rows of cells.
TrainIds == x_train[1]
TestIds == x_test[1]
MissIds == x_missing[1]

LabelsOf(ids) == [k \in 1..Len(ids) |-> Y(data, ids[k])]
y_test == LabelsOf(TestIds)
y_missing == LabelsOf(MissIds)

RowsOf(ids, cols) == [k \in 1..Len(ids) |-> Cells(X(data, ids[k]), cols)]

\* What one iteration did: the exception it raised ("none" if it ran to its
\* end), the entries it wrote to the two dictionaries before that, the
\* locals it assigned and the rows it handed to predict.
Res(e, ent, mis, ytf, yp, inp) ==
  [err |-> e, entire |-> ent, missing |-> mis, ytf |-> ytf, y_pred |-> yp,
   inputs |-> inp]

\* np.concatenate((a, b))
Concatenate(a, b) == a \o b

\* np.full((n,), v)
Full(n, v) == [k \in 1..n |-> v]

\* the missing rows labelled 0, a label of the problem
AbstainZero(n) == Full(n, 0)

\* np.full((num_missing_items,), -1)
Abstain(n) == Full(n, AbstainLabel)

\* method A: abstention (lines 93-109)
StrategyA ==
  LET ytf == Concatenate(y_test, y_missing)
      xt == RowsOf(TestIds, AllColumns)
      e == PredictRaises(model, xt)
      pred == Predict(model, xt)
      num_missing_items == Len(MissIds)
      y_pred_full == Concatenate(pred, Abstain(num_missing_items))
  IN  IF e # "none"
      THEN Res(e, NoEntry, NoEntry, Some(ytf), None, Range(xt))
      ELSE Res("none", Some(Accuracy(ytf, y_pred_full)),
               Some(Accuracy(y_missing, Abstain(num_missing_items))),
               Some(ytf), Some(pred), Range(xt))

\* method B: majority inference (lines 111-127).  The truth vector of line
\* 119 is the local y_test_full as an earlier iteration left it.
StrategyB ==
  LET majority_class == Majority(data, TrainIds)
      y_pred_majority == Full(Len(y_missing), majority_class)
      xt == RowsOf(TestIds, AllColumns)
      e == PredictRaises(model, xt)
      pred == Concatenate(Predict(model, xt), y_pred_majority)
  IN  IF e # "none" THEN Res(e, NoEntry, NoEntry, None, None, Range(xt))
      ELSE IF y_test_full = None
      THEN Res("UnboundLocalError", NoEntry, NoEntry, None, Some(pred), Range(xt))
      ELSE IF AccuracyRaises(y_test_full[1], pred) # "none"
      THEN Res("ValueError", NoEntry, NoEntry, None, Some(pred), Range(xt))
      ELSE Res("none", Some(Accuracy(y_test_full[1], pred)),
               Some(Accuracy(y_missing, y_pred_majority)),
               None, Some(pred), Range(xt))

\* DataFrame.drop(columns = ...) raises KeyError for a label the frame lacks
DropRaises(labels, cols) ==
  IF cols \subseteq Range(labels) THEN "none" ELSE "KeyError"

Drop(labels, cols) == SelectSeq(labels, LAMBDA c : c \notin cols)

\* method C: omit the features with missing values, refit (lines 129-156)
StrategyC ==
  LET ytf == Concatenate(y_test, y_missing)
      labels_C == feature_labels[1]
      kept == Drop(labels_C, columns_missing[1])
      rebuilt_x_test == RowsOf(Concatenate(TestIds, MissIds), kept)
      rebuilt_x_missing == RowsOf(MissIds, kept)
      reduced == Fit(data, TrainIds, kept, learner)
      e1 == PredictRaises(reduced, rebuilt_x_test)
      e2 == PredictRaises(reduced, rebuilt_x_missing)
      pred == Predict(reduced, rebuilt_x_test)
  IN  IF DropRaises(labels_C, columns_missing[1]) # "none"
      THEN Res("KeyError", NoEntry, NoEntry, Some(ytf), None, {})
      ELSE IF FitRaises(x_train, kept) # "none"
      THEN Res(FitRaises(x_train, kept), NoEntry, NoEntry, Some(ytf), None, {})
      ELSE IF e1 # "none"
      THEN Res(e1, NoEntry, NoEntry, Some(ytf), None, Range(rebuilt_x_test))
      ELSE IF e2 # "none"
      THEN Res(e2, Some(Accuracy(ytf, pred)), NoEntry, Some(ytf), Some(pred),
               Range(rebuilt_x_test) \cup Range(rebuilt_x_missing))
      ELSE Res("none", Some(Accuracy(ytf, pred)),
               Some(Accuracy(y_missing, Predict(reduced, rebuilt_x_missing))),
               Some(ytf), Some(pred),
               Range(rebuilt_x_test) \cup Range(rebuilt_x_missing))

\* rebuilt_x_missing[column].fillna(value) for every column of fill
FillNa(rows, labels, fill) ==
  [k \in 1..Len(rows) |->
     [j \in 1..Len(labels) |->
        IF rows[k][j] = NaN /\ labels[j] \in DOMAIN fill
        THEN fill[labels[j]] ELSE rows[k][j]]]

\* the same with the reconstructed missing rows put before the test rows
ScoreImputedMissingFirst(imputed) ==
  LET ytf == Concatenate(y_test, y_missing)
      x_test_full == Concatenate(imputed, RowsOf(TestIds, AllColumns))
      e1 == PredictRaises(model, x_test_full)
      e2 == PredictRaises(model, imputed)
      pred == Predict(model, x_test_full)
  IN  IF e1 # "none"
      THEN Res(e1, NoEntry, NoEntry, Some(ytf), None, Range(x_test_full))
      ELSE IF e2 # "none"
      THEN Res(e2, Some(Accuracy(ytf, pred)), NoEntry, Some(ytf), Some(pred),
               Range(x_test_full))
      ELSE Res("none", Some(Accuracy(ytf, pred)),
               Some(Accuracy(y_missing, Predict(model, imputed))),
               Some(ytf), Some(pred), Range(x_test_full))

\* The tail shared by methods D, E and F: score the baseline model on the
\* test rows followed by the reconstructed missing rows, then on the
\* reconstructed missing rows alone.
ScoreImputed(imputed) ==
  LET ytf == Concatenate(y_test, y_missing)
      x_test_full == Concatenate(RowsOf(TestIds, AllColumns), imputed)
      e1 == PredictRaises(model, x_test_full)
      e2 == PredictRaises(model, imputed)
      pred == Predict(model, x_test_full)
  IN  IF e1 # "none"
      THEN Res(e1, NoEntry, NoEntry, Some(ytf), None, Range(x_test_full))
      ELSE IF e2 # "none"
      THEN Res(e2, Some(Accuracy(ytf, pred)), NoEntry, Some(ytf), Some(pred),
               Range(x_test_full))
      ELSE Res("none", Some(Accuracy(ytf, pred)),
               Some(Accuracy(y_missing, Predict(model, imputed))),
               Some(ytf), Some(pred), Range(x_test_full))

\* rebuilt_x_train[column].mean() / .median()
TrainStatistic(stat, c) ==
  IF stat = "mean" THEN Mean(data, TrainIds, c) ELSE Median(data, TrainIds, c)

\* methods D and E: fill with the training mean / median (lines 158-214).
\* rebuilt_x_train[column] raises KeyError for a column that is no feature.
StrategyFill(stat) ==
  LET labels == feature_labels[1]
      cm == columns_missing[1]
      fill == [c \in cm |-> TrainStatistic(stat, c)]
  IN  IF ~(cm \subseteq Range(labels))
      THEN Res("KeyError", NoEntry, NoEntry, None, None, {})
      ELSE ScoreImputed(FillNa(RowsOf(MissIds, AllColumns), labels, fill))

\* method D: mean imputation (lines 158-185)
StrategyD == StrategyFill("mean")

\* method E: median imputation (lines 187-214)
StrategyE == StrategyFill("median")

\* KNNImputer(n_neighbors = 30).fit(x_train).transform(x_missing): every
\* null cell gets a value; transform rejects an array of no rows
KnnChoices ==
  LET any == UNION {KnnValues(data, TrainIds, c) : c \in Features}
  IN  {imp \in [1..Len(MissIds) -> [Features -> any]] :
         \A k \in 1..Len(MissIds) : \A c \in Features :
            imp[k][c] \in KnnValues(data, TrainIds, c)}

KnnTransform(rows, imp) ==
  [k \in 1..Len(rows) |->
     [j \in 1..Len(AllColumns) |->
        IF rows[k][j] = NaN THEN imp[k][AllColumns[j]] ELSE rows[k][j]]]

\* method F: KNN imputation (lines 216-232)
StrategyF(imp) ==
  LET ytf == Concatenate(y_test, y_missing)
  IN  IF Len(MissIds) = 0
      THEN Res("ValueError", NoEntry, NoEntry, Some(ytf), None, {})
      ELSE ScoreImputed(KnnTransform(RowsOf(MissIds, AllColumns), imp))

\* ------------------------------------------------------------ the object
EmptyDict == [k \in {} |-> <<0, 0>>]

\* TrainModel.__init__ (lines 39-55), for every table, shuffle outcome and
\* kind of fitted forest
Init ==
  /\ data \in Datasets
  /\ rng \in ShuffleOutcomes(data)
  /\ learner \in Learners
  /\ x_train = None
  /\ x_test = None
  /\ x_missing = None
  /\ feature_labels = None
  /\ columns_missing = None
  /\ model = Unfitted
  /\ accuracy_dict_entire_test_set = EmptyDict
  /\ accuracy_dict_missing_values = EmptyDict
  /\ pc = "idle"
  /\ call = "none"
  /\ err = "none"
  /\ method = "none"
  /\ y_test_full = None
  /\ y_test_full_from = "none"
  /\ y_pred = None
  /\ predict_inputs = {}

\* load_data (lines 57-74)
load_data ==
  /\ pc = "idle"
  /\ call' = "load_data"
  /\ feature_labels' = Some(AllColumns)
  /\ IF SplitRaises(Size(CompleteIds(data)))
     THEN /\ err' = "ValueError"
          /\ UNCHANGED <<x_train, x_test, x_missing, columns_missing>>
     ELSE /\ err' = "none"
          /\ x_train' = Some(TrainTestSplit(data, rng).train)
          /\ x_test' = Some(TrainTestSplit(data, rng).test)
          /\ x_missing' = Some(SetToSortedSeq(MissingIds(data)))
          /\ columns_missing' = Some(ColumnsMissing(data))
  /\ UNCHANGED <<data, rng, learner, model, accuracy_dict_entire_test_set,
                 accuracy_dict_missing_values, pc, method, y_test_full,
                 y_test_full_from, y_pred, predict_inputs>>

\* train_model (lines 76-80)
train_model ==
  /\ pc = "idle"
  /\ call' = "train_model"
  /\ err' = FitRaises(x_train, AllColumns)
  /\ model' = IF FitRaises(x_train, AllColumns) = "none"
              THEN Fit(data, TrainIds, AllColumns, learner)
              ELSE model
  /\ UNCHANGED <<data, rng, learner, x_train, x_test, x_missing,
                 feature_labels, columns_missing,
                 accuracy_dict_entire_test_set, accuracy_dict_missing_values,
                 pc, method, y_test_full, y_test_full_from, y_pred,
                 predict_inputs>>

\* evaluate_model is entered (lines 82-86): a new frame, no local bound yet
evaluate_model ==
  /\ pc = "idle"
  /\ call' = "evaluate_model"
  /\ err' = "none"
  /\ pc' = Methods[1]
  /\ method' = "none"
  /\ y_test_full' = None
  /\ y_test_full_from' = "none"
  /\ y_pred' = None
  /\ UNCHANGED <<data, rng, learner, x_train, x_test, x_missing,
                 feature_labels, columns_missing, model,
                 accuracy_dict_entire_test_set, accuracy_dict_missing_values,
                 predict_inputs>>

\* a loop that catches the exception and goes on with the next method
AfterStrategyContinue(m, e) ==
  IF Position(Methods, m) = Len(Methods) THEN "idle"
  ELSE Methods[Position(Methods, m) + 1]

\* Where the loop goes after the iteration of method m: an exception leaves
\* evaluate_model, otherwise the next element of the list follows.
AfterStrategy(m, e) ==
  IF e # "none" \/ Position(Methods, m) = Len(Methods) THEN "idle"
  ELSE Methods[Position(Methods, m) + 1]

\* self.x_test.copy() on None (line 88)
CopyRaises == IF x_test = None THEN "AttributeError" ELSE "none"

\* One iteration of the loop for method m, whose body did r.
Iterate(m, r) ==
  /\ method' = m
  /\ err' = r.err
  /\ pc' = AfterStrategy(m, r.err)
  /\ accuracy_dict_entire_test_set' =
       IF r.entire = NoEntry THEN accuracy_dict_entire_test_set
       ELSE (m :> r.entire[1]) @@ accuracy_dict_entire_test_set
  /\ accuracy_dict_missing_values' =
       IF r.missing = NoEntry THEN accuracy_dict_missing_values
       ELSE (m :> r.missing[1]) @@ accuracy_dict_missing_values
  /\ y_test_full' = IF r.ytf = None THEN y_test_full ELSE r.ytf
  /\ y_test_full_from' = IF r.ytf = None THEN y_test_full_from ELSE m
  /\ y_pred' = IF r.y_pred = None THEN y_pred ELSE r.y_pred
  /\ predict_inputs' = predict_inputs \cup r.inputs
  /\ UNCHANGED <<data, rng, learner, x_train, x_test, x_missing,
                 feature_labels, columns_missing, model, call>>

Failed(e) == Res(e, NoEntry, NoEntry, None, None, {})

MethodA ==
  /\ pc = "A"
  /\ Iterate("A", IF CopyRaises # "none" THEN Failed(CopyRaises) ELSE StrategyA)

MethodB ==
  /\ pc = "B"
  /\ Iterate("B", IF CopyRaises # "none" THEN Failed(CopyRaises) ELSE StrategyB)

MethodC ==
  /\ pc = "C"
  /\ Iterate("C", IF CopyRaises # "none" THEN Failed(CopyRaises) ELSE StrategyC)

MethodD ==
  /\ pc = "D"
  /\ Iterate("D", IF CopyRaises # "none" THEN Failed(CopyRaises) ELSE StrategyD)

MethodE ==
  /\ pc = "E"
  /\ Iterate("E", IF CopyRaises # "none" THEN Failed(CopyRaises) ELSE StrategyE)

MethodF ==
  /\ pc = "F"
  /\ IF CopyRaises # "none" THEN Iterate("F", Failed(CopyRaises))
     ELSE \E imp \in KnnChoices : Iterate("F", StrategyF(imp))

Next ==
  \/ load_data
  \/ train_model
  \/ evaluate_model
  \/ MethodA
  \/ MethodB
  \/ MethodC
  \/ MethodD
  \/ MethodE
  \/ MethodF

Spec == Init /\ [][Next]_vars

\* ================================================================ claims
EntireKeys == DOMAIN accuracy_dict_entire_test_set
MissingKeys == DOMAIN accuracy_dict_missing_values
Strategies == {"A", "B", "C", "D", "E", "F"}
ClaimedOrder == <<"A", "B", "C", "D", "E", "F">>
Returned(c) == call = c /\ pc = "idle"
BaselineOnTest == Predict(model, RowsOf(TestIds, AllColumns))

\* C1 (as stated): train_model called before load_data has completed, and
\* evaluate_model called before train_model has completed, fail with
\* NotInitializedError and do not run the phase.
C1_NotInitializedError ==
  /\ (Returned("train_model") /\ x_train = None) =>
        (err = "NotInitializedError" /\ ~model.fitted)
  /\ (Returned("evaluate_model") /\ ~model.fitted) =>
        (err = "NotInitializedError" /\ EntireKeys = {} /\ MissingKeys = {})

\* C1 (amended): the out-of-order call fails and does not run the phase, with
\* the error of the first use of the missing state: train_model before
\* load_data fails with ValueError (fit of None) and leaves the model
\* unfitted; evaluate_model before load_data fails with AttributeError (copy
\* of None), evaluate_model after load_data and before train_model fails with
\* NotFittedError (predict of method A); both record no accuracy entry.
C1_OutOfOrderFails ==
  /\ (Returned("train_model") /\ x_train = None) =>
        (err = "ValueError" /\ ~model.fitted)
  /\ (Returned("evaluate_model") /\ ~model.fitted) =>
        /\ err = (IF x_test = None THEN "AttributeError" ELSE "NotFittedError")
        /\ method = "A"
        /\ EntireKeys = {}
        /\ MissingKeys = {}

C1_Witness ==
  /\ Returned("evaluate_model")
  /\ x_test # None
  /\ ~model.fitted
  /\ err = "NotFittedError"

\* C2 (as stated): load_data yields a train partition of exactly TrainSize
\* rows whenever the table has at least TrainSize complete rows, exactly
\* TrainSize included; with fewer it fails and yields no partition.
C2_TrainSizeWheneverEnough ==
  Returned("load_data") =>
     IF Size(CompleteIds(data)) >= TrainSize
     THEN err = "none" /\ x_train # None /\ Size(TrainIds) = TrainSize
     ELSE err # "none" /\ x_train = None /\ x_test = None /\ x_missing = None

\* C2 (amended): load_data yields a train partition of exactly TrainSize rows
\* whenever the table has more than TrainSize complete rows; with TrainSize
\* complete rows or fewer it fails and yields no partition.
C2_TrainSizeWhenMore ==
  Returned("load_data") =>
     IF Size(CompleteIds(data)) > TrainSize
     THEN /\ err = "none"
          /\ x_train # None
          /\ Size(TrainIds) = TrainSize
          /\ Len(TestIds) = Size(CompleteIds(data)) - TrainSize
     ELSE err # "none" /\ x_train = None /\ x_test = None /\ x_missing = None

C2_Witness ==
  /\ Returned("load_data")
  /\ err = "none"
  /\ Size(CompleteIds(data)) = TrainSize + 1
  /\ Size(TrainIds) = TrainSize

\* C3: once load_data has succeeded, train, test and missing cover every row
\* of the table exactly once (they lie in 1..NumRows, are pairwise disjoint
\* and their sizes add up to NumRows); the rows of train and test have no
\* null feature and every row of missing has one.
C3_Partition ==
  x_train # None =>
     LET te == Range(TestIds)
         mi == Range(MissIds)
     IN  /\ x_test # None /\ x_missing # None
         /\ Injective(TestIds) /\ Injective(MissIds)
         /\ 1 <= TrainIds.lo /\ TrainIds.hi <= data.n_bulk
         /\ TrainIds.more \subseteq TailIds(data)
         /\ te \subseteq 1..NumRows(data)
         /\ mi \subseteq 1..NumRows(data)
         /\ \A i \in te : ~In(i, TrainIds) /\ i \notin mi
         /\ \A i \in mi : ~In(i, TrainIds)
         /\ Size(TrainIds) + Len(TestIds) + Len(MissIds) = NumRows(data)
         /\ IntervalSize(TrainIds) > 0 => ~HasNull(DataRow(data, TrainIds.lo))
         /\ \A i \in TrainIds.more \cup te : ~HasNull(DataRow(data, i))
         /\ \A i \in mi : HasNull(DataRow(data, i))

C3_Witness ==
  /\ Returned("load_data")
  /\ err = "none"
  /\ x_train # None
  /\ Len(TestIds) > 0
  /\ Len(MissIds) > 0

PrefixOfOrder(keys) ==
  \A k \in 1..Len(ClaimedOrder) :
     ClaimedOrder[k] \in keys => \A j \in 1..(k - 1) : ClaimedOrder[j] \in keys

\* C4: evaluate_model runs the strategies in the order A, B, C, D, E, F; a
\* strategy that runs to its end adds its own key, and no other, to each of
\* the two dictionaries; neither dictionary ever holds a strategy's key
\* without the keys of the strategies before it; when evaluate_model returns
\* without an error each dictionary has exactly the keys A..F.
C4_FixedOrder ==
  /\ [](/\ PrefixOfOrder(EntireKeys)
        /\ PrefixOfOrder(MissingKeys)
        /\ EntireKeys \subseteq Strategies
        /\ MissingKeys \subseteq Strategies
        /\ (Returned("evaluate_model") /\ err = "none") =>
              (EntireKeys = Strategies /\ MissingKeys = Strategies))
  /\ [][(pc # "idle" /\ err' = "none") =>
          /\ method' = pc
          /\ EntireKeys' = EntireKeys \cup {pc}
          /\ MissingKeys' = MissingKeys \cup {pc}
          /\ \E k \in 1..Len(ClaimedOrder) :
                /\ pc = ClaimedOrder[k]
                /\ pc' = (IF k = Len(ClaimedOrder) THEN "idle"
                          ELSE ClaimedOrder[k + 1])]_vars

C4_Witness ==
  /\ Returned("evaluate_model")
  /\ err = "none"
  /\ method = "F"
  /\ EntireKeys = Strategies
  /\ MissingKeys = Strategies

\* C5: a strategy that fails ends evaluate_model with its error: no later
\* strategy runs, no later strategy has an entry in either dictionary, and
\* every earlier strategy has its entry in both.
C5_FailureAbandonsTheRest ==
  /\ [](\A k \in 1..Len(ClaimedOrder) :
          (Returned("evaluate_model") /\ err # "none"
             /\ method = ClaimedOrder[k]) =>
             /\ \A j \in (k + 1)..Len(ClaimedOrder) :
                   ClaimedOrder[j] \notin EntireKeys \cup MissingKeys
             /\ \A j \in 1..(k - 1) :
                   ClaimedOrder[j] \in EntireKeys \cap MissingKeys)
  /\ [][(pc # "idle" /\ err' # "none") => (pc' = "idle" /\ method' = pc)]_vars

C5_Witness ==
  /\ Returned("evaluate_model")
  /\ err # "none"
  /\ method = "C"
  /\ {"A", "B"} \subseteq EntireKeys \cap MissingKeys

\* C6 (as stated): a strategy reads no value written during another
\* strategy's run: the combined truth vector a strategy scores against
\* (strategy B's in particular) is one built in its own run.
C6_OwnTruthVector ==
  (method \in Strategies /\ err = "none" /\ method \in EntireKeys) =>
     y_test_full_from = method

\* C7: strategy A labels every missing row -1, a label outside {0, 1}; with a
\* nonempty missing partition its missing-only accuracy is 0.0 and its
\* combined accuracy is the number of correct baseline predictions on test
\* over |test| + |missing|.
C7_Abstention ==
  /\ AbstainLabel \notin {0, 1}
  /\ ("A" \in MissingKeys /\ x_missing # None /\ Len(MissIds) > 0) =>
        /\ accuracy_dict_missing_values["A"] = <<0, Len(MissIds)>>
        /\ "A" \in EntireKeys
        /\ accuracy_dict_entire_test_set["A"] =
             <<Cardinality({k \in 1..Len(TestIds) :
                              BaselineOnTest[k] = y_test[k]}),
               Len(TestIds) + Len(MissIds)>>

C7_Witness ==
  /\ "A" \in MissingKeys
  /\ Len(MissIds) > 0
  /\ \E k \in 1..Len(MissIds) : y_missing[k] = 0
  /\ accuracy_dict_entire_test_set["A"][1] > 0

\* C8: when strategy D, E or F has run, the first |test| entries of its
\* combined prediction vector are the baseline model's predictions on the
\* test rows as load_data left them, and the vector has |test| + |missing|
\* entries.
C8_TestRowsUntouched ==
  (method \in {"D", "E", "F"} /\ err = "none") =>
     /\ y_pred # None
     /\ Len(y_pred[1]) = Len(TestIds) + Len(MissIds)
     /\ SubSeq(y_pred[1], 1, Len(TestIds)) = BaselineOnTest

C8_Witness ==
  /\ method = "F"
  /\ err = "none"
  /\ Len(TestIds) > 0
  /\ Len(MissIds) > 0
  /\ \E k \in 1..Len(y_pred[1]) : y_pred[1][k] # y_pred[1][1]

\* C9 (as stated): wherever evaluate_model stops, by its end or by an
\* exception, the two dictionaries have the same keys.
C9_SameKeys == pc = "idle" => EntireKeys = MissingKeys

\* C10: no classifier is asked to predict on a row that holds a null: every
\* null of a missing row lies in a column of columns_missing, and every row
\* handed to predict is free of nulls.
C10_NoNullPredicted ==
  /\ columns_missing # None =>
        \A k \in 1..Len(MissIds) : \A c \in Features :
           X(data, MissIds[k])[c] = NaN => c \in columns_missing[1]
  /\ \A r \in predict_inputs : ~RowHasNaN(r)

C10_Witness ==
  /\ method = "E"
  /\ err = "none"
  /\ "E" \in MissingKeys
  /\ \E k \in 1..Len(MissIds) : HasNull(DataRow(data, MissIds[k]))

====
